---- MODULE Spec2Model ----
(***************************************************************************)
(* A model of src/App.jsx (wildfire-predictor): the numeric coercion, the  *)
(* CSV row parser, the per-province aggregator, the wind heading           *)
(* estimator, the geodesic destination point, and the App component's      *)
(* state (place lookup, wind form, rendered heading and arrow).            *)
(*                                                                         *)
(* JavaScript strings are sequences of one-character strings, so that      *)
(* split, trim, replace and Number() are computed character by character.  *)
(* JavaScript values are tagged records (JsNum, JsNaN, JsStr, ...).        *)
(* Numbers are integers: every number the model forms is an integer that   *)
(* an IEEE double holds exactly, so the additions are exact. The string    *)
(* alphabet has no ".", so no fractional literal is ever formed.           *)
(***************************************************************************)
EXTENDS Integers, Sequences, FiniteSets, TLC

VARIABLES
  pc,          \* which step of the pure-function pipelines has run
  numIn,       \* toNum: the argument v
  numOut,      \* toNum: the returned value
  sheet,       \* the table (header cells, data cells) the CSV text was written from
  text,        \* parseCSV: the CSV text
  rows,        \* parseCSV: the returned records (or the thrown TypeError)
  totals,      \* aggregateByProvince: the returned code -> total object
  hIn,         \* predictHeading: the arguments
  hOut,        \* predictHeading: the returned { headingDeg, compass }
  gIn,         \* destPoint: the arguments
  gOut,        \* destPoint: the returned [lat, lon] and the raw longitude
  error,       \* App: useState error
  query,       \* App: useState query
  home,        \* App: useState home
  wind,        \* App: useState wind
  csv,         \* App: the state of the CSV-loading effect
  fc,          \* App: useState fc (the totals behind the FeatureCollection)
  totalCanada, \* App: useState totalCanada
  mapRef,      \* App: mapRef.current is set
  mapView,     \* the Leaflet map's centre and zoom
  lookups,     \* the onFindPlace calls so far, in submission order, each pending, ok or failed
  res,         \* App: the rendered heading result
  line         \* App: the rendered arrow geometry

fnVars == <<pc, numIn, numOut, sheet, text, rows, totals, hIn, hOut, gIn, gOut>>
uiVars == <<error, query, home, wind, csv, fc, totalCanada, mapRef, mapView, lookups, res, line>>
vars == <<pc, numIn, numOut, sheet, text, rows, totals, hIn, hOut, gIn, gOut,
          error, query, home, wind, csv, fc, totalCanada, mapRef, mapView, lookups, res, line>>

-----------------------------------------------------------------------------
(* Bounds of the model *)

\* longest string handed to toNum
MaxNumLen == 3
\* most columns of a CSV header row or data line
MaxCols == 3
\* most records handed to aggregateByProvince
MaxRows == 3
\* most Find submissions
MaxFinds == 2

-----------------------------------------------------------------------------
(* JavaScript values *)

JsUndefined == [t |-> "undefined", n |-> 0, s |-> <<>>]
JsNull == [t |-> "null", n |-> 0, s |-> <<>>]
JsNaN == [t |-> "nan", n |-> 0, s |-> <<>>]
JsPosInf == [t |-> "inf", n |-> 1, s |-> <<>>]
JsNegInf == [t |-> "inf", n |-> -1, s |-> <<>>]
JsFunction == [t |-> "function", n |-> 0, s |-> <<>>]
JsNum(n) == [t |-> "num", n |-> n, s |-> <<>>]
JsStr(s) == [t |-> "str", n |-> 0, s |-> s]

\* Number.isFinite(v)
IsFinite(v) == v.t = "num"

\* a ?? b
Nullish(a, b) == IF a.t \in {"undefined", "null"} THEN b ELSE a

\* the truthiness of a value
Truthy(v) ==
  CASE v.t = "num" -> v.n # 0
    [] v.t = "str" -> v.s # <<>>
    [] v.t \in {"inf", "function"} -> TRUE
    [] OTHER -> FALSE

-----------------------------------------------------------------------------
(* Strings *)

Digits == <<"0", "1", "2", "3", "4", "5", "6", "7", "8", "9">>
UpperChars == <<"A", "B", "C", "D", "E", "F", "G", "H", "I", "J", "K", "L", "M",
                "N", "O", "P", "Q", "R", "S", "T", "U", "V", "W", "X", "Y", "Z", "E_acute">>
LowerChars == <<"a", "b", "c", "d", "e", "f", "g", "h", "i", "j", "k", "l", "m",
                "n", "o", "p", "q", "r", "s", "t", "u", "v", "w", "x", "y", "z", "e_acute">>
\* the characters \s matches and trim() removes
WhiteSpace == {" ", "\t", "\n", "\r"}

IsDigit(c) == \E i \in 1..10 : Digits[i] = c
DigitVal(c) == (CHOOSE i \in 1..10 : Digits[i] = c) - 1

\* String.prototype.toLowerCase / toUpperCase, one character
LowerChar(c) ==
  IF \E i \in 1..Len(UpperChars) : UpperChars[i] = c
  THEN LowerChars[CHOOSE i \in 1..Len(UpperChars) : UpperChars[i] = c] ELSE c
UpperChar(c) ==
  IF \E i \in 1..Len(LowerChars) : LowerChars[i] = c
  THEN UpperChars[CHOOSE i \in 1..Len(LowerChars) : LowerChars[i] = c] ELSE c
toLowerCase(s) == [i \in 1..Len(s) |-> LowerChar(s[i])]
toUpperCase(s) == [i \in 1..Len(s) |-> UpperChar(s[i])]

\* s with every character of the set cs removed: s.replace(/[cs]+/g, "")
RemoveChars(s, cs) == SelectSeq(s, LAMBDA c : c \notin cs)

RECURSIVE TrimStart(_)
TrimStart(s) == IF s # <<>> /\ Head(s) \in WhiteSpace THEN TrimStart(Tail(s)) ELSE s
RECURSIVE TrimEnd(_)
TrimEnd(s) ==
  IF s # <<>> /\ s[Len(s)] \in WhiteSpace THEN TrimEnd(SubSeq(s, 1, Len(s) - 1)) ELSE s
\* String.prototype.trim
trim(s) == TrimEnd(TrimStart(s))

\* s.split(sep) for a one-character separator: "" splits to [""]
RECURSIVE SplitFrom(_, _, _)
SplitFrom(s, sep, cur) ==
  IF s = <<>> THEN <<cur>>
  ELSE IF Head(s) = sep THEN <<cur>> \o SplitFrom(Tail(s), sep, <<>>)
  ELSE SplitFrom(Tail(s), sep, Append(cur, Head(s)))
split(s, sep) == SplitFrom(s, sep, <<>>)

\* the decimal digits of a natural number
RECURSIVE NatToStr(_)
NatToStr(n) == IF n < 10 THEN <<Digits[n + 1]>> ELSE Append(NatToStr(n \div 10), Digits[(n % 10) + 1])

\* the value of a non-empty string of decimal digits
RECURSIVE DigitsToNat(_)
DigitsToNat(s) ==
  IF s = <<>> THEN 0 ELSE 10 * DigitsToNat(SubSeq(s, 1, Len(s) - 1)) + DigitVal(s[Len(s)])

AllDigits(s) == s # <<>> /\ \A i \in 1..Len(s) : IsDigit(s[i])
StrInfinity == <<"I", "n", "f", "i", "n", "i", "t", "y">>
StrNaN == <<"N", "a", "N">>

\* String(v)
JsString(v) ==
  CASE v.t = "str" -> v.s
    [] v.t = "num" -> IF v.n < 0 THEN <<"-">> \o NatToStr(-v.n) ELSE NatToStr(v.n)
    [] v.t = "nan" -> StrNaN
    [] v.t = "inf" -> IF v.n < 0 THEN <<"-">> \o StrInfinity ELSE StrInfinity
    [] v.t = "null" -> <<"n", "u", "l", "l">>
    [] OTHER -> <<"u", "n", "d", "e", "f", "i", "n", "e", "d">>

\* Number(s) of a string (StringToNumber): white space trimmed, "" is 0, an
\* optionally signed run of digits or Infinity, anything else NaN. Strings
\* with ".", an exponent or a 0x/0o/0b prefix are outside the model's alphabet.
UnsignedNumber(s, sign) ==
  IF AllDigits(s) THEN JsNum(sign * DigitsToNat(s))
  ELSE IF s = StrInfinity THEN (IF sign < 0 THEN JsNegInf ELSE JsPosInf)
  ELSE JsNaN
JsNumber(s) ==
  LET t == trim(s) IN
    IF t = <<>> THEN JsNum(0)
    ELSE IF Head(t) = "-" THEN UnsignedNumber(Tail(t), -1)
    ELSE IF Head(t) = "+" THEN UnsignedNumber(Tail(t), 1)
    ELSE UnsignedNumber(t, 1)

-----------------------------------------------------------------------------
(* toNum, src/App.jsx 43-46 *)

toNum(v) ==
  LET n == JsNumber(RemoveChars(JsString(Nullish(v, JsStr(<<>>))), {",", " "})) IN
    IF IsFinite(n) THEN n ELSE JsNaN

-----------------------------------------------------------------------------
(* The tables of src/App.jsx 7-40 and 63-65, 81-83 *)

\* CENTROIDS, the keys (the centroid coordinates are only drawn)
CENTROIDS == {<<"A", "B">>, <<"B", "C">>, <<"M", "B">>, <<"N", "B">>, <<"N", "L">>, <<"N", "S">>, <<"N", "T">>, <<"N", "U">>, <<"O", "N">>, <<"P", "E">>, <<"Q", "C">>, <<"S", "K">>, <<"Y", "T">>}
NAME_TO_CODE == {
  <<<<"a", "l", "b", "e", "r", "t", "a">>,
    <<"A", "B">>>>,
  <<<<"b", "r", "i", "t", "i", "s", "h", " ", "c", "o", "l", "u", "m", "b", "i", "a">>,
    <<"B", "C">>>>,
  <<<<"m", "a", "n", "i", "t", "o", "b", "a">>,
    <<"M", "B">>>>,
  <<<<"n", "e", "w", " ", "b", "r", "u", "n", "s", "w", "i", "c", "k">>,
    <<"N", "B">>>>,
  <<<<"n", "e", "w", "f", "o", "u", "n", "d", "l", "a", "n", "d", " ", "a", "n", "d", " ", "l", "a", "b", "r", "a", "d", "o", "r">>,
    <<"N", "L">>>>,
  <<<<"n", "e", "w", "f", "o", "u", "n", "d", "l", "a", "n", "d", " ", "&", " ", "l", "a", "b", "r", "a", "d", "o", "r">>,
    <<"N", "L">>>>,
  <<<<"n", "o", "v", "a", " ", "s", "c", "o", "t", "i", "a">>,
    <<"N", "S">>>>,
  <<<<"n", "o", "r", "t", "h", "w", "e", "s", "t", " ", "t", "e", "r", "r", "i", "t", "o", "r", "i", "e", "s">>,
    <<"N", "T">>>>,
  <<<<"n", "u", "n", "a", "v", "u", "t">>,
    <<"N", "U">>>>,
  <<<<"o", "n", "t", "a", "r", "i", "o">>,
    <<"O", "N">>>>,
  <<<<"p", "r", "i", "n", "c", "e", " ", "e", "d", "w", "a", "r", "d", " ", "i", "s", "l", "a", "n", "d">>,
    <<"P", "E">>>>,
  <<<<"q", "u", "e", "b", "e", "c">>,
    <<"Q", "C">>>>,
  <<<<"s", "a", "s", "k", "a", "t", "c", "h", "e", "w", "a", "n">>,
    <<"S", "K">>>>,
  <<<<"y", "u", "k", "o", "n">>,
    <<"Y", "T">>>>,
  <<<<"p", "e", "i">>,
    <<"P", "E">>>>
}
ObjectPrototypeKeys == {
  <<"c", "o", "n", "s", "t", "r", "u", "c", "t", "o", "r">>,
  <<"_", "_", "d", "e", "f", "i", "n", "e", "G", "e", "t", "t", "e", "r", "_", "_">>,
  <<"_", "_", "d", "e", "f", "i", "n", "e", "S", "e", "t", "t", "e", "r", "_", "_">>,
  <<"h", "a", "s", "O", "w", "n", "P", "r", "o", "p", "e", "r", "t", "y">>,
  <<"_", "_", "l", "o", "o", "k", "u", "p", "G", "e", "t", "t", "e", "r", "_", "_">>,
  <<"_", "_", "l", "o", "o", "k", "u", "p", "S", "e", "t", "t", "e", "r", "_", "_">>,
  <<"i", "s", "P", "r", "o", "t", "o", "t", "y", "p", "e", "O", "f">>,
  <<"p", "r", "o", "p", "e", "r", "t", "y", "I", "s", "E", "n", "u", "m", "e", "r", "a", "b", "l", "e">>,
  <<"t", "o", "S", "t", "r", "i", "n", "g">>,
  <<"v", "a", "l", "u", "e", "O", "f">>,
  <<"_", "_", "p", "r", "o", "t", "o", "_", "_">>,
  <<"t", "o", "L", "o", "c", "a", "l", "e", "S", "t", "r", "i", "n", "g">>
}
YearAliases == {
  <<"y", "e", "a", "r">>,
  <<"y", "r">>
}
RegionAliases == {
  <<"r", "e", "g", "i", "o", "n", "c", "o", "d", "e">>,
  <<"p", "r", "o", "v", "i", "n", "c", "e">>,
  <<"p", "r", "o", "v">>,
  <<"r", "e", "g", "i", "o", "n">>,
  <<"t", "e", "r", "r", "i", "t", "o", "r", "y">>,
  <<"p", "r", "o", "v", "i", "n", "c", "e", "t", "e", "r", "r", "i", "t", "o", "r", "y">>,
  <<"p", "r", "o", "v", "i", "n", "c", "e", "c", "o", "d", "e">>,
  <<"n", "a", "m", "e">>,
  <<"n", "a", "m", "e", "e", "n">>,
  <<"p", "r", "n", "a", "m", "e">>,
  <<"p", "r", "e", "n", "a", "m", "e">>
}
AreaAliases == {
  <<"a", "r", "e", "a">>,
  <<"a", "r", "e", "a", "_", "h", "a">>,
  <<"a", "r", "e", "a", "h", "a">>,
  <<"b", "u", "r", "n", "e", "d", "a", "r", "e", "a">>,
  <<"b", "u", "r", "n", "e", "d", "_", "a", "r", "e", "a">>,
  <<"a", "r", "e", "a", "b", "u", "r", "n", "e", "d">>,
  <<"t", "o", "t", "a", "l", "a", "r", "e", "a">>,
  <<"t", "o", "t", "a", "l", "b", "u", "r", "n", "e", "d">>,
  <<"a", "r", "e", "a", "h", "e", "c", "t", "a", "r", "e", "s">>,
  <<"h", "e", "c", "t", "a", "r", "e", "s">>
}
RegionLiterals == <<<<"R", "e", "g", "i", "o", "n", "C", "o", "d", "e">>,
  <<"P", "r", "o", "v", "i", "n", "c", "e">>,
  <<"R", "e", "g", "i", "o", "n">>,
  <<"P", "R", "N", "A", "M", "E">>,
  <<"P", "R", "E", "N", "A", "M", "E">>,
  <<"n", "a", "m", "e">>,
  <<"N", "A", "M", "E">>>>
AreaLiterals == <<<<"A", "r", "e", "a", "_", "h", "a">>,
  <<"A", "r", "e", "a">>,
  <<"B", "u", "r", "n", "e", "d", "A", "r", "e", "a">>>>
YearLiterals == <<<<"Y", "E", "A", "R">>,
  <<"Y", "e", "a", "r">>>>

\* the property names every plain object inherits from Object.prototype
\* (what `key in obj` and obj[key] see besides the object's own keys)
InObject(key, ownKeys) == key \in ownKeys \/ key \in ObjectPrototypeKeys

\* NAME_TO_CODE[key]
NameToCode(key) ==
  IF \E p \in NAME_TO_CODE : p[1] = key
  THEN JsStr((CHOOSE p \in NAME_TO_CODE : p[1] = key)[2])
  ELSE IF key \in ObjectPrototypeKeys THEN JsFunction
  ELSE JsUndefined

-----------------------------------------------------------------------------
(* normName, src/App.jsx 47-52 *)

\* normalize("NFD"): a precomposed letter becomes its base letter and a combining mark
RECURSIVE NFD(_)
NFD(s) ==
  IF s = <<>> THEN <<>>
  ELSE (CASE Head(s) = "e_acute" -> <<"e", "combining_acute">>
          [] Head(s) = "E_acute" -> <<"E", "combining_acute">>
          [] OTHER -> <<Head(s)>>) \o NFD(Tail(s))

normName(s) ==
  trim(toLowerCase(RemoveChars(NFD(JsString(Nullish(s, JsStr(<<>>)))), {"combining_acute"})))

-----------------------------------------------------------------------------
(* detectColumns, src/App.jsx 55-67 *)

\* header cell i, trimmed
HeaderTrimmed(headerCells) == [i \in 1..Len(headerCells) |-> trim(headerCells[i])]
\* x.toLowerCase().replace(/\s+|_/g, "")
HeaderNorm(x) == RemoveChars(toLowerCase(x), WhiteSpace \cup {"_"})

findOne(headerCells, aliases) ==
  LET h == HeaderTrimmed(headerCells)
      hit == {i \in 1..Len(h) : HeaderNorm(h[i]) \in aliases}
  IN IF hit # {} THEN JsStr(h[CHOOSE i \in hit : \A j \in hit : i <= j]) ELSE JsNull

detectColumns(headerCells) ==
  [yearCol |-> findOne(headerCells, YearAliases),
   regionCol |-> findOne(headerCells, RegionAliases),
   areaCol |-> findOne(headerCells, AreaAliases)]

-----------------------------------------------------------------------------
(* parseCSV, src/App.jsx 70-94 *)

\* obj[key] of the row object built by header.forEach((key, i) => obj[key] = cells[i]):
\* a later column of the same name overwrites an earlier one; a missing cell is undefined
ObjGet(header, cells, key) ==
  LET own == {i \in 1..Len(header) : header[i] = key} IN
    IF own = {}
    THEN (IF key \in ObjectPrototypeKeys THEN JsFunction ELSE JsUndefined)
    ELSE LET i == CHOOSE k \in own : \A j \in own : j <= k
         IN IF i <= Len(cells) THEN JsStr(cells[i]) ELSE JsUndefined

\* obj.K1 ?? obj.K2 ?? ... over the literal column names
RECURSIVE Fallback(_, _, _)
Fallback(header, cells, keys) ==
  IF Len(keys) = 1 THEN ObjGet(header, cells, keys[1])
  ELSE Nullish(ObjGet(header, cells, keys[1]), Fallback(header, cells, Tail(keys)))

\* lines 85-90: the region cell to a code; threw when region.toUpperCase is not a function
RegionOf(regionRaw) ==
  LET region == trim(JsString(IF Truthy(regionRaw) THEN regionRaw ELSE JsStr(<<>>)))
      code == IF Len(region) > 2 THEN NameToCode(normName(JsStr(region))) ELSE JsUndefined
      picked == IF Truthy(code) THEN code ELSE JsStr(region)
  IN IF picked.t = "str"
     THEN [threw |-> FALSE, region |-> toUpperCase(picked.s)]
     ELSE [threw |-> TRUE, region |-> <<>>]

\* the callback of lines 76-93, one data line
ParseLine(header, cols, ln) ==
  LET cells == split(ln, ",")
      regionRaw == Nullish(ObjGet(header, cells, JsString(cols.regionCol)),
                           Fallback(header, cells, RegionLiterals))
      areaRaw == Nullish(ObjGet(header, cells, JsString(cols.areaCol)),
                         Fallback(header, cells, AreaLiterals))
      yearRaw == Nullish(ObjGet(header, cells, JsString(cols.yearCol)),
                         Fallback(header, cells, YearLiterals))
      r == RegionOf(regionRaw)
  IN [threw |-> r.threw, region |-> r.region, area_ha |-> toNum(areaRaw), year |-> toNum(yearRaw)]

Record(r) == [region |-> r.region, area_ha |-> r.area_ha, year |-> r.year]

\* the returned array of records, or threw: the TypeError propagates out of parseCSV
parseCSV(txt) ==
  LET lines == SelectSeq(split(RemoveChars(txt, {"\r"}), "\n"), LAMBDA l : l # <<>>) IN
    IF lines = <<>> THEN [threw |-> FALSE, rows |-> <<>>]
    ELSE LET header == split(lines[1], ",")
             cols == detectColumns(header)
             parsed == [i \in 1..(Len(lines) - 1) |-> ParseLine(header, cols, lines[i + 1])]
         IN IF \E i \in 1..Len(parsed) : parsed[i].threw
            THEN [threw |-> TRUE, rows |-> <<>>]
            ELSE [threw |-> FALSE, rows |-> [i \in 1..Len(parsed) |-> Record(parsed[i])]]

-----------------------------------------------------------------------------
(* aggregateByProvince, src/App.jsx 97-106 *)

\* a + b of two numbers
JsAdd(a, b) == IF a.t = "num" /\ b.t = "num" THEN JsNum(a.n + b.n) ELSE JsNaN

\* totals[key] of the object literal being filled
TotalsGet(tot, key) ==
  IF key \in DOMAIN tot THEN tot[key]
  ELSE IF key \in ObjectPrototypeKeys THEN JsFunction ELSE JsUndefined

\* totals with totals[key] = v
TotalsPut(tot, key, v) == [k \in (DOMAIN tot) \cup {key} |-> IF k = key THEN v ELSE tot[k]]

\* the loop body, lines 100-103
AggregateStep_Overwrite(tot, r) ==
  IF r.region = <<>> \/ ~InObject(r.region, CENTROIDS) THEN tot
  ELSE LET val == toNum(r.area_ha) IN
    IF ~IsFinite(val) THEN tot
    ELSE TotalsPut(tot, r.region, val)

AggregateStep(tot, r) ==
  IF r.region = <<>> \/ ~InObject(r.region, CENTROIDS) THEN tot
  ELSE LET val == toNum(r.area_ha) IN
    IF ~IsFinite(val) THEN tot
    ELSE LET old == TotalsGet(tot, r.region)
         IN TotalsPut(tot, r.region, JsAdd(IF Truthy(old) THEN old ELSE JsNum(0), val))

RECURSIVE AggregateFrom(_, _)
AggregateFrom(tot, rs) ==
  IF rs = <<>> THEN tot ELSE AggregateFrom(AggregateStep(tot, Head(rs)), Tail(rs))

EmptyObject == [k \in {} |-> JsUndefined]

aggregateByProvince(rs) == AggregateFrom(EmptyObject, rs)

-----------------------------------------------------------------------------
(* Inputs of the pure-function specifications *)

H_region == <<"r", "e", "g", "i", "o", "n">>
H_region_padded == <<" ", "r", "e", "g", "i", "o", "n", " ">>
H_Province == <<"P", "r", "o", "v", "i", "n", "c", "e">>
H_area_ha == <<"a", "r", "e", "a", "_", "h", "a">>
H_Area == <<"A", "r", "e", "a">>
H_year == <<"y", "e", "a", "r">>
H_foo == <<"f", "o", "o">>
D_Alberta == <<"A", "l", "b", "e", "r", "t", "a">>
D_AB == <<"A", "B">>
D_Quebec == <<"Q", "u", "e_acute", "b", "e", "c">>
D_constructor == <<"c", "o", "n", "s", "t", "r", "u", "c", "t", "o", "r">>
D_1234 == <<"1", ",", "2", "3", "4">>
D_2020 == <<"2", "0", "2", "0">>
D_5 == <<"5">>
D_empty == <<>>
D_neg == <<"-", "3">>

\* every sequence over S of length lo..hi
SeqsOf(S, lo, hi) == UNION {[1..k -> S] : k \in lo..hi}

\* the characters of the strings handed to toNum
NumChars == {"0", "1", "7", "-", ",", " ", "z"}
NumInputs ==
  {JsStr(s) : s \in SeqsOf(NumChars, 0, MaxNumLen)}
    \cup {JsUndefined, JsNull, JsNaN, JsNum(-2), JsNum(0), JsNum(5)}

HeaderCells == {H_region, H_region_padded, H_Province, H_area_ha, H_year}
DataCells == {D_Alberta, D_Quebec, D_constructor, D_1234, D_2020, D_empty}
NoSheet == [header |-> <<>>, cells |-> <<>>, quoted |-> FALSE, crlf |-> FALSE]
\* well-formed tables: one data line with a cell per header column, written
\* plainly with "\n" or with quoted cells and "\r\n"
Sheets ==
  {[header |-> h, cells |-> c, quoted |-> st, crlf |-> st] :
     h \in SeqsOf(HeaderCells, 1, MaxCols), c \in SeqsOf(DataCells, 1, MaxCols),
     st \in BOOLEAN}

\* the records parseCSV can return: an upper-case region, a number or NaN
AggRegions == {D_AB, <<"B", "C">>, <<"X", "X">>, D_empty}
AggAreas == {JsNaN, JsNum(-1), JsNum(0), JsNum(2)}
AggRecords == {[region |-> g, area_ha |-> a, year |-> JsNum(2020)] : g \in AggRegions, a \in AggAreas}

\* a table written as CSV text: cells joined by ",", lines ended by "\n" or "\r\n";
\* a cell holding a comma is written as it is, or in double quotes
RECURSIVE Join(_, _)
Join(cells, sep) ==
  IF cells = <<>> THEN <<>>
  ELSE IF Len(cells) = 1 THEN cells[1]
  ELSE cells[1] \o sep \o Join(Tail(cells), sep)
WriteCell(c, quoted) ==
  IF quoted /\ (\E i \in 1..Len(c) : c[i] = ",") THEN <<"\"">> \o c \o <<"\"">> ELSE c
WriteCSV(sh) ==
  LET eol == IF sh.crlf THEN <<"\r", "\n">> ELSE <<"\n">>
      dataLine == Join([i \in 1..Len(sh.cells) |-> WriteCell(sh.cells[i], sh.quoted)], <<",">>)
  IN Join(sh.header, <<",">>) \o eol \o dataLine \o (IF sh.crlf THEN eol ELSE <<>>)

-----------------------------------------------------------------------------
(* The idle values of the state a specification does not use *)

NoRows == [threw |-> FALSE, rows |-> <<>>]
NoHeadingArgs == [speedKmh |-> 0, dirFromDeg |-> 0, env |-> "grass", slopePct |-> JsNaN, slopeDirTo |-> JsNaN]
NoResult == [set |-> FALSE, headingDeg |-> 0, compass |-> ""]
NoGeoArgs == [lat |-> 0, lon |-> 0, bearingDeg |-> 0, distanceKm |-> 0]
NoPoint == [lat |-> 0, lon |-> 0, rawLon |-> 0]
NoHome == [set |-> FALSE, lat |-> 0, lon |-> 0, name |-> ""]
NoLine == [set |-> FALSE, start |-> <<0, 0>>, end |-> <<0, 0>>, left |-> <<0, 0>>, right |-> <<0, 0>>]
NoFc == [set |-> FALSE, totals |-> EmptyObject]
EmptyWind == [speed |-> <<>>, dirFrom |-> <<>>, env |-> "grass", slopePct |-> <<>>, slopeDirTo |-> <<>>]
InitialView == [lat |-> 56, lon |-> -96, zoom |-> 4]

NumIdle == numIn = JsUndefined /\ numOut = JsUndefined
CsvIdle == sheet = NoSheet /\ text = <<>> /\ rows = NoRows /\ totals = EmptyObject
HeadingIdle == hIn = NoHeadingArgs /\ hOut = NoResult
GeoIdle == gIn = NoGeoArgs /\ gOut = NoPoint
UiIdle ==
  /\ error = "" /\ query = "" /\ home = NoHome /\ wind = EmptyWind
  /\ csv = "loading" /\ fc = NoFc /\ totalCanada = 0
  /\ mapRef = FALSE /\ mapView = InitialView /\ lookups = <<>>
  /\ res = NoResult /\ line = NoLine

-----------------------------------------------------------------------------
(* toNum applied to one value *)

InitNum ==
  /\ pc = "call" /\ numIn \in NumInputs /\ numOut = JsUndefined
  /\ CsvIdle /\ HeadingIdle /\ GeoIdle /\ UiIdle

CallToNum ==
  /\ pc = "call"
  /\ numOut' = toNum(numIn)
  /\ pc' = "done"
  /\ UNCHANGED <<numIn, sheet, text, rows, totals, hIn, hOut, gIn, gOut>>
  /\ UNCHANGED uiVars

NextNum == CallToNum

SpecNum == InitNum /\ [][NextNum]_vars

-----------------------------------------------------------------------------
(* parseCSV, then aggregateByProvince, as the CSV effect runs them (209-210) *)

Parse ==
  /\ pc = "text"
  /\ rows' = parseCSV(text)
  /\ pc' = "parsed"
  /\ UNCHANGED <<numIn, numOut, sheet, text, totals, hIn, hOut, gIn, gOut>>
  /\ UNCHANGED uiVars

Aggregate ==
  /\ pc = "parsed"
  /\ ~rows.threw
  /\ totals' = aggregateByProvince(rows.rows)
  /\ pc' = "aggregated"
  /\ UNCHANGED <<numIn, numOut, sheet, text, rows, hIn, hOut, gIn, gOut>>
  /\ UNCHANGED uiVars

InitCsv ==
  /\ pc = "text" /\ sheet \in Sheets /\ Len(sheet.cells) = Len(sheet.header)
  /\ text = WriteCSV(sheet)
  /\ rows = NoRows /\ totals = EmptyObject
  /\ NumIdle /\ HeadingIdle /\ GeoIdle /\ UiIdle

NextCsv == Parse \/ Aggregate

SpecCsv == InitCsv /\ [][NextCsv]_vars

InitAgg ==
  /\ pc = "parsed" /\ sheet = NoSheet /\ text = <<>>
  /\ rows \in {[threw |-> FALSE, rows |-> rs] : rs \in SeqsOf(AggRecords, 0, MaxRows)}
  /\ totals = EmptyObject
  /\ NumIdle /\ HeadingIdle /\ GeoIdle /\ UiIdle

NextAgg == Aggregate

SpecAgg == InitAgg /\ [][NextAgg]_vars

-----------------------------------------------------------------------------
(* Claims about toNum, parseCSV and aggregateByProvince *)

\* the argument is empty or absent: undefined, null, or text with nothing
\* left once commas and spaces are stripped
C4_EmptyOrAbsent(v) ==
  \/ v.t \in {"undefined", "null"}
  \/ v.t = "str" /\ RemoveChars(v.s, {",", " "}) = <<>>

\* C4: toNum returns NaN whenever its input is empty or absent or cannot be
\* parsed as a number, and the parsed number otherwise.
C4_ToNumContract ==
  pc = "done" =>
    LET parsed == JsNumber(RemoveChars(JsString(numIn), {",", " "})) IN
      IF C4_EmptyOrAbsent(numIn) \/ ~IsFinite(parsed)
      THEN numOut = JsNaN
      ELSE numOut = parsed

\* C2: parsing and then aggregating the single data row with region cell
\* "Alberta", area cell "1,234" and year cell "2020" yields exactly one
\* total, AB = 1234.
C2_AlbertaRoundTrip ==
  (/\ pc = "aggregated"
   /\ sheet.header = <<H_region, H_area_ha, H_year>>
   /\ sheet.cells = <<D_Alberta, D_1234, D_2020>>)
    => totals = (D_AB :> JsNum(1234))

\* the header row and the data line of the text
C5_Lines == SelectSeq(split(RemoveChars(text, {"\r"}), "\n"), LAMBDA l : l # <<>>)
C5_Header == split(C5_Lines[1], ",")
C5_Cells == split(C5_Lines[2], ",")
\* a header cell normalized: lowercased, whitespace and underscores stripped
C5_Norm(cell) == RemoveChars(toLowerCase(cell), WhiteSpace \cup {"_"})
C5_Hits(aliases) == {i \in 1..Len(C5_Header) : C5_Norm(C5_Header[i]) \in aliases}
C5_First(aliases) == CHOOSE i \in C5_Hits(aliases) : \A j \in C5_Hits(aliases) : i <= j
C5_CellAt(i) == IF i <= Len(C5_Cells) THEN JsStr(C5_Cells[i]) ELSE JsUndefined
\* the raw value the claim says a field is read from
C5_Raw(aliases, literals) ==
  IF C5_Hits(aliases) # {} THEN C5_CellAt(C5_First(aliases))
  ELSE Fallback(C5_Header, C5_Cells, literals)

\* C5: if some header cell matches a region (area, year) alias after
\* normalization, the record takes its region (area, year) from the cell at
\* the position of the first such header column, also when the header cell
\* has leading or trailing whitespace; only when no alias matches does it
\* fall back to the literal column names.
C5_FirstMatchingColumn ==
  (pc = "parsed" /\ ~rows.threw /\ Len(rows.rows) = 1) =>
    /\ rows.rows[1].region = RegionOf(C5_Raw(RegionAliases, RegionLiterals)).region
    /\ rows.rows[1].area_ha = toNum(C5_Raw(AreaAliases, AreaLiterals))
    /\ rows.rows[1].year = toNum(C5_Raw(YearAliases, YearLiterals))

\* the records the aggregator includes: region one of the 13 codes, area finite
C1_Included == {i \in 1..Len(rows.rows) : rows.rows[i].region \in CENTROIDS /\ rows.rows[i].area_ha.t = "num"}
RECURSIVE C1_Sum(_)
C1_Sum(I) ==
  IF I = {} THEN 0
  ELSE LET i == CHOOSE k \in I : TRUE IN rows.rows[i].area_ha.n + C1_Sum(I \ {i})

C8_TotalsNonNegative ==
  pc = "aggregated" => \A c \in DOMAIN totals : totals[c].t = "num" /\ totals[c].n >= 0

-----------------------------------------------------------------------------
(* Angles. Degrees are integers; sine and cosine are tabulated in           *)
(* hundredths on the 15-degree grid and an angle off the grid is taken at   *)
(* the nearest grid angle; asin and atan2 return the nearest grid angle,    *)
(* found by comparing with the tangents and sines of the angles half way    *)
(* between grid angles.                                                     *)

\* a % b of JavaScript: the sign of the dividend
JsRem(a, b) == IF a >= 0 THEN a % b ELSE -((-a) % b)

\* mod360, src/App.jsx 130
mod360(d) == JsRem(JsRem(d, 360) + 360, 360)

\* 100 * cos of 0, 15, ..., 345 degrees
CosTable ==
  <<100, 97, 87, 71, 50, 26, 0, -26, -50, -71, -87, -97,
    -100, -97, -87, -71, -50, -26, 0, 26, 50, 71, 87, 97>>

\* Math.cos(toRad(d)) and Math.sin(toRad(d)), in hundredths (131)
CosDeg(d) == CosTable[((((d % 360) + 7) \div 15) % 24) + 1]
SinDeg(d) == CosDeg(d - 90)

Abs(n) == IF n < 0 THEN -n ELSE n

\* 100 * tan and 1000000 * sin of 7.5, 22.5, ..., 82.5 degrees
TanMid == <<13, 41, 77, 130, 241, 760>>
SinMid == <<130526, 382683, 608761, 793353, 923880, 991445>>

\* toDeg(Math.atan2(y, x)): in [-180, 180], 0 for the zero vector (132)
Atan2Deg(y, x) ==
  IF x = 0 /\ y = 0 THEN 0
  ELSE LET a == 15 * Cardinality({j \in 1..6 : 100 * Abs(y) >= TanMid[j] * Abs(x)})
       IN IF x >= 0 THEN (IF y >= 0 THEN a ELSE -a)
          ELSE (IF y >= 0 THEN 180 - a ELSE a - 180)

\* toDeg(Math.asin(s)) of s in millionths: in [-90, 90]
AsinDeg(s) ==
  LET a == 15 * Cardinality({j \in 1..6 : Abs(s) >= SinMid[j]})
  IN IF s >= 0 THEN a ELSE -a

-----------------------------------------------------------------------------
(* compassFromDeg and predictHeading, src/App.jsx 129-156 *)

\* WAF[env] ?? 0.7, in tenths
WAF(env) ==
  CASE env = "grass" -> 7
    [] env = "shrub" -> 5
    [] env = "forest" -> 3
    [] OTHER -> 7

CompassDirs == <<"N", "NNE", "NE", "ENE", "E", "ESE", "SE", "SSE",
                 "S", "SSW", "SW", "WSW", "W", "WNW", "NW", "NNW">>

\* Math.round(mod360(deg) / 22.5) is floor((4 deg + 45) / 90)
compassFromDeg(deg) == CompassDirs[(((4 * mod360(deg) + 45) \div 90) % 16) + 1]

\* u and v are in units of 1/450000 m/s: waf * speedKmh / 3.6 * cos is
\* 125 * (10 waf) * speedKmh * (100 cos), 0.02 * (slopePct / 10) * cos is
\* 9 * slopePct * (100 cos)
predictHeading_FromAsTo(speedKmh, dirFromDeg, env, slopePct, slopeDirTo) ==
  LET headingTo == mod360(dirFromDeg)
      slope == IsFinite(slopePct) /\ IsFinite(slopeDirTo)
      u == 125 * WAF(env) * speedKmh * CosDeg(headingTo)
             + (IF slope THEN 9 * slopePct.n * CosDeg(slopeDirTo.n) ELSE 0)
      v == 125 * WAF(env) * speedKmh * SinDeg(headingTo)
             + (IF slope THEN 9 * slopePct.n * SinDeg(slopeDirTo.n) ELSE 0)
      heading == mod360(Atan2Deg(v, u))
  IN [set |-> TRUE, headingDeg |-> heading, compass |-> compassFromDeg(heading)]

predictHeading(speedKmh, dirFromDeg, env, slopePct, slopeDirTo) ==
  LET headingTo == mod360(dirFromDeg + 180)
      slope == IsFinite(slopePct) /\ IsFinite(slopeDirTo)
      u == 125 * WAF(env) * speedKmh * CosDeg(headingTo)
             + (IF slope THEN 9 * slopePct.n * CosDeg(slopeDirTo.n) ELSE 0)
      v == 125 * WAF(env) * speedKmh * SinDeg(headingTo)
             + (IF slope THEN 9 * slopePct.n * SinDeg(slopeDirTo.n) ELSE 0)
      heading == mod360(Atan2Deg(v, u))
  IN [set |-> TRUE, headingDeg |-> heading, compass |-> compassFromDeg(heading)]

-----------------------------------------------------------------------------
(* destPoint, src/App.jsx 159-167 *)

\* toDeg(distanceKm / R) with R = 6371: the arc in degrees, rounded
ArcDeg(distanceKm) == (distanceKm * 1800 + 100075) \div 200151

\* line 166: the longitude in degrees, normalized
NormLon_NoBias(rawLon) == JsRem(rawLon + 180, 360) - 180

NormLon(rawLon) == JsRem(rawLon + 540, 360) - 180

\* toDeg of phi2 (164)
DestLat(lat, bearingDeg, d) ==
  AsinDeg(SinDeg(lat) * CosDeg(d) * 100 + CosDeg(lat) * SinDeg(d) * CosDeg(bearingDeg))

\* the longitude before normalization: toDeg of lambda2 (165)
RawLon(lat, lon, bearingDeg, distanceKm) ==
  LET d == ArcDeg(distanceKm)
      phi2 == DestLat(lat, bearingDeg, d)
      y == SinDeg(bearingDeg) * SinDeg(d) * CosDeg(lat)
      x == CosDeg(d) * 10000 - SinDeg(lat) * SinDeg(phi2) * 100
  IN lon + Atan2Deg(y, x)

destPoint(lat, lon, bearingDeg, distanceKm) ==
  <<DestLat(lat, bearingDeg, ArcDeg(distanceKm)), NormLon(RawLon(lat, lon, bearingDeg, distanceKm))>>

-----------------------------------------------------------------------------
(* predictHeading applied to one set of arguments *)

HeadingSpeeds == {-5, 0, 5, 20}
HeadingDirs == {15 * k : k \in 0..24} \cup {-90, 450}
HeadingEnvs == {"grass", "shrub", "forest", "tundra"}
HeadingArgs ==
  {[speedKmh |-> sp, dirFromDeg |-> d, env |-> e, slopePct |-> pct, slopeDirTo |-> sd] :
     sp \in HeadingSpeeds, d \in HeadingDirs, e \in HeadingEnvs,
     pct \in {JsNaN, JsNum(0), JsNum(30)}, sd \in {JsNaN, JsNum(90)}}

InitHeading ==
  /\ pc = "call" /\ hIn \in HeadingArgs /\ hOut = NoResult
  /\ NumIdle /\ CsvIdle /\ GeoIdle /\ UiIdle

CallPredictHeading ==
  /\ pc = "call"
  /\ hOut' = predictHeading(hIn.speedKmh, hIn.dirFromDeg, hIn.env, hIn.slopePct, hIn.slopeDirTo)
  /\ pc' = "done"
  /\ UNCHANGED <<numIn, numOut, sheet, text, rows, totals, hIn, gIn, gOut>>
  /\ UNCHANGED uiVars

NextHeading == CallPredictHeading

SpecHeading == InitHeading /\ [][NextHeading]_vars

-----------------------------------------------------------------------------
(* destPoint applied to one set of arguments *)

GeoLats == {15 * k : k \in -6..6}
GeoLons == {-180, -90, 0, 90, 165, 180}
GeoBearings == {-150, 0, 45, 90, 180, 270, 495}
GeoDistances == {0, 1668, 6672, 10008, 20015}
GeoArgs ==
  {[lat |-> la, lon |-> lo, bearingDeg |-> b, distanceKm |-> km] :
     la \in GeoLats, lo \in GeoLons, b \in GeoBearings, km \in GeoDistances}

InitGeo ==
  /\ pc = "call" /\ gIn \in GeoArgs /\ gOut = NoPoint
  /\ NumIdle /\ CsvIdle /\ HeadingIdle /\ UiIdle

CallDestPoint ==
  /\ pc = "call"
  /\ LET pt == destPoint(gIn.lat, gIn.lon, gIn.bearingDeg, gIn.distanceKm) IN
       gOut' = [lat |-> pt[1], lon |-> pt[2],
                rawLon |-> RawLon(gIn.lat, gIn.lon, gIn.bearingDeg, gIn.distanceKm)]
  /\ pc' = "done"
  /\ UNCHANGED <<numIn, numOut, sheet, text, rows, totals, hIn, hOut, gIn>>
  /\ UNCHANGED uiVars

NextGeo == CallDestPoint

SpecGeo == InitGeo /\ [][NextGeo]_vars

-----------------------------------------------------------------------------
(* Claims about predictHeading and destPoint *)

\* the slope push is absent: a slope field is not finite, or the percent is 0
C3_NoSlope == ~IsFinite(hIn.slopePct) \/ ~IsFinite(hIn.slopeDirTo) \/ hIn.slopePct = JsNum(0)

C9_LonHalfOpenAbove ==
  pc = "done" =>
    /\ (gOut.lon - gOut.rawLon) % 360 = 0
    /\ gOut.lon > -180 /\ gOut.lon <= 180
    /\ (gOut.rawLon = 180 => gOut.lon = 180)

\* C9 amended: the returned longitude is congruent to the raw longitude
\* modulo 360 and lies in [-180, 180), so a raw 180 is returned as -180.
C9_LonHalfOpenBelow ==
  pc = "done" =>
    /\ (gOut.lon - gOut.rawLon) % 360 = 0
    /\ gOut.lon >= -180 /\ gOut.lon < 180
    /\ (gOut.rawLon = 180 => gOut.lon = -180)

C9_Witness == pc = "done" /\ gOut.rawLon = 180 /\ gOut.lon = -180 /\ gIn.distanceKm > 0

-----------------------------------------------------------------------------
(* The App component, src/App.jsx 181-262 and 291-341 *)

CsvErrorMsg == "Failed to load or parse burned_area_canada_tidy.csv"
FindErrorMsg == "Couldn't find that place. Try a more specific name (City, Province/Country)."

\* what the user types into the place box, and what the wind form offers
Queries == {"Calgary", "Ottawa"}
SpeedTexts == {<<>>, <<"1", "0">>}
DirTexts == {<<>>, <<"2", "7", "0">>}
EnvOptions == {"grass", "shrub", "forest"}
SlopePctTexts == {<<>>, <<"3", "0">>}
SlopeDirTexts == {<<>>, <<"9", "0">>}

\* geocodePlace's return value for a query the service finds (176-177),
\* in whole degrees
Place(q) ==
  IF q = "Calgary" THEN [set |-> TRUE, lat |-> 51, lon |-> -114, name |-> "Calgary, Alberta, Canada"]
  ELSE [set |-> TRUE, lat |-> 45, lon |-> -76, name |-> "Ottawa, Ontario, Canada"]

\* the CSV texts the data file may hold
CsvSamples ==
  {WriteCSV([header |-> <<H_region, H_area_ha>>, cells |-> <<D_Alberta, D_2020>>, quoted |-> FALSE, crlf |-> TRUE]),
   WriteCSV([header |-> <<H_Province, H_area_ha>>, cells |-> <<D_constructor, D_2020>>, quoted |-> FALSE, crlf |-> FALSE])}

\* lines 209-210 on each of them
CsvParsed ==
  {LET parsed == parseCSV(txt)
   IN [threw |-> parsed.threw, totals |-> aggregateByProvince(parsed.rows)] : txt \in CsvSamples}

\* Number(x) || 0
NumberOr0(s) == LET n == JsNumber(s) IN IF Truthy(n) THEN n.n ELSE 0

Min(a, b) == IF a < b THEN a ELSE b
Max(a, b) == IF a > b THEN a ELSE b

\* Object.values(totals).reduce((a, b) => a + b, 0), rounded (211-212)
RECURSIVE GrandTotal(_, _)
GrandTotal(tot, keys) ==
  IF keys = {} THEN 0
  ELSE LET k == CHOOSE x \in keys : TRUE IN tot[k].n + GrandTotal(tot, keys \ {k})

\* lines 229-233: the heading result of a render
RenderRes_EitherField(w) ==
  IF w.speed # <<>> \/ w.dirFrom # <<>>
  THEN predictHeading(NumberOr0(w.speed), NumberOr0(w.dirFrom), w.env,
                      IF w.slopePct = <<>> THEN JsNaN ELSE JsNumber(w.slopePct),
                      IF w.slopeDirTo = <<>> THEN JsNaN ELSE JsNumber(w.slopeDirTo))
  ELSE NoResult

RenderRes(w) ==
  IF w.speed # <<>> /\ w.dirFrom # <<>>
  THEN predictHeading(NumberOr0(w.speed), NumberOr0(w.dirFrom), w.env,
                      IF w.slopePct = <<>> THEN JsNaN ELSE JsNumber(w.slopePct),
                      IF w.slopeDirTo = <<>> THEN JsNaN ELSE JsNumber(w.slopeDirTo))
  ELSE NoResult

\* lines 236-246: the arrow of a render; lengths in whole km
RenderLine(h, r, w) ==
  IF ~h.set \/ ~r.set THEN NoLine
  ELSE LET lengthKm == Max(5, Min(25, (NumberOr0(w.speed) * 8) \div 10))
           end == destPoint(h.lat, h.lon, r.headingDeg, lengthKm)
           head == Max(2, (lengthKm * 35) \div 100)
       IN [set |-> TRUE, start |-> <<h.lat, h.lon>>, end |-> end,
           left |-> destPoint(end[1], end[2], r.headingDeg - 155, head),
           right |-> destPoint(end[1], end[2], r.headingDeg + 155, head)]

\* the render that follows every state update
Render == res' = RenderRes(wind') /\ line' = RenderLine(home', res', wind')

InitApp ==
  /\ error = "" /\ query = "" /\ home = NoHome /\ wind = EmptyWind
  /\ csv = "loading" /\ fc = NoFc /\ totalCanada = 0
  /\ mapRef \in BOOLEAN /\ mapView = InitialView /\ lookups = <<>>
  /\ res = RenderRes(wind) /\ line = RenderLine(home, res, wind)
  /\ pc = "app" /\ NumIdle /\ CsvIdle /\ HeadingIdle /\ GeoIdle

\* the effect of lines 203-219, the fetch answered with the file
LoadCSV ==
  /\ csv = "loading"
  /\ \E parsed \in CsvParsed :
       IF parsed.threw
       THEN error' = CsvErrorMsg /\ csv' = "failed" /\ UNCHANGED <<fc, totalCanada>>
       ELSE /\ totalCanada' = GrandTotal(parsed.totals, DOMAIN parsed.totals)
            /\ fc' = [set |-> TRUE, totals |-> parsed.totals]
            /\ csv' = "ok" /\ UNCHANGED error
  /\ UNCHANGED <<query, home, wind, mapRef, mapView, lookups>>
  /\ Render
  /\ UNCHANGED fnVars

\* the same effect, the fetch rejected or answered with a non-OK status
LoadCSVFailed ==
  /\ csv = "loading"
  /\ error' = CsvErrorMsg /\ csv' = "failed"
  /\ UNCHANGED <<query, home, wind, fc, totalCanada, mapRef, mapView, lookups>>
  /\ Render
  /\ UNCHANGED fnVars

\* the place box's onChange (282)
SetQuery ==
  /\ \E q \in Queries : q # query /\ query' = q
  /\ UNCHANGED <<error, home, wind, csv, fc, totalCanada, mapRef, mapView, lookups>>
  /\ Render
  /\ UNCHANGED fnVars

\* call i settled with status st
Settle(ls, i, st) == [ls EXCEPT ![i].st = st]

\* onFindPlace up to its await (250-253): the request is in flight
SubmitFind ==
  /\ Len(lookups) < MaxFinds
  /\ query \in Queries
  /\ error' = ""
  /\ lookups' = Append(lookups, [q |-> query, st |-> "pending"])
  /\ UNCHANGED <<query, home, wind, csv, fc, totalCanada, mapRef, mapView>>
  /\ Render
  /\ UNCHANGED fnVars

\* onFindPlace resumed with a place (254-257)
LookupOk(i) ==
  /\ lookups[i].st = "pending"
  /\ home' = Place(lookups[i].q)
  /\ mapView' = IF mapRef THEN [lat |-> home'.lat, lon |-> home'.lon, zoom |-> 10] ELSE mapView
  /\ lookups' = Settle(lookups, i, "ok")
  /\ UNCHANGED <<error, query, wind, csv, fc, totalCanada, mapRef>>
  /\ Render
  /\ UNCHANGED fnVars

\* onFindPlace resumed in its catch (258-261): fetch rejected, a non-OK
\* status or an empty result array (172-175)
LookupFailed_Silent(i) ==
  /\ lookups[i].st = "pending"
  /\ lookups' = Settle(lookups, i, "failed")
  /\ UNCHANGED <<error, query, home, wind, csv, fc, totalCanada, mapRef, mapView>>
  /\ Render
  /\ UNCHANGED fnVars

LookupFailed(i) ==
  /\ lookups[i].st = "pending"
  /\ error' = FindErrorMsg
  /\ lookups' = Settle(lookups, i, "failed")
  /\ UNCHANGED <<query, home, wind, csv, fc, totalCanada, mapRef, mapView>>
  /\ Render
  /\ UNCHANGED fnVars

\* the wind form's onChange handlers (301, 309, 317, 329, 337); the form is
\* rendered only once home is set (291)
SetWind(w) ==
  /\ home.set
  /\ w # wind
  /\ wind' = w
  /\ UNCHANGED <<error, query, home, csv, fc, totalCanada, mapRef, mapView, lookups>>
  /\ Render
  /\ UNCHANGED fnVars

SetSpeed == \E v \in SpeedTexts : SetWind([wind EXCEPT !.speed = v])
SetDirFrom == \E v \in DirTexts : SetWind([wind EXCEPT !.dirFrom = v])
SetEnv == \E v \in EnvOptions : SetWind([wind EXCEPT !.env = v])
SetSlopePct == \E v \in SlopePctTexts : SetWind([wind EXCEPT !.slopePct = v])
SetSlopeDirTo == \E v \in SlopeDirTexts : SetWind([wind EXCEPT !.slopeDirTo = v])

FindOk == \E i \in 1..Len(lookups) : LookupOk(i)
FindFailed == \E i \in 1..Len(lookups) : LookupFailed(i)

Next ==
  \/ LoadCSV
  \/ LoadCSVFailed
  \/ SetQuery
  \/ SubmitFind
  \/ FindOk
  \/ FindFailed
  \/ SetSpeed
  \/ SetDirFrom
  \/ SetEnv
  \/ SetSlopePct
  \/ SetSlopeDirTo

Spec == InitApp /\ [][Next]_vars

-----------------------------------------------------------------------------
(* Claims about the App component *)

C6_WindFilled == wind.speed # <<>> /\ wind.dirFrom # <<>>

C6_State ==
  /\ res.set <=> C6_WindFilled
  /\ line.set <=> (C6_WindFilled /\ home.set)

\* a wind-field edit leaves the error message as it is
C6_Step == wind' # wind => error' = error

\* C6: in every reachable state a heading result exists if and only if the
\* wind speed and the wind FROM-direction fields are both non-empty, an
\* arrow exists if and only if a home point is set as well, and leaving
\* speed or direction empty never sets the error message.
C6_HeadingIffWindFilled == [](C6_State) /\ [][C6_Step]_vars

\* a home point, a speed but no direction: no heading, no arrow, no error
C6_Witness ==
  /\ home.set /\ wind.speed # <<>> /\ wind.dirFrom = <<>>
  /\ ~res.set /\ ~line.set /\ error = ""

\* a step in which lookup i fails
C7_Fails(i) == lookups[i].st = "pending" /\ lookups'[i].st = "failed"

C7_Step ==
  \A i \in 1..Len(lookups) :
    C7_Fails(i) =>
      /\ error' # ""
      /\ home' = home
      /\ Len(lookups') = Len(lookups)
      /\ \A j \in 1..Len(lookups) : j # i => lookups'[j] = lookups[j]

\* C7: when a place lookup fails, onFindPlace sets a non-empty error
\* message, leaves the home point as it was, and issues no further lookup
\* request (only a Find submission adds one).
C7_FailureShownNotRetried == [][C7_Step]_vars

\* a lookup failed after an earlier one had set the home point
C7_Witness ==
  /\ Len(lookups) = 2
  /\ lookups[1].st = "ok" /\ lookups[2].st = "failed"
  /\ home = Place(lookups[1].q) /\ error = FindErrorMsg

\* C10: with the CSV loaded, once every lookup in flight has completed, the
\* home point is the result of the most recently submitted query if that
\* query succeeded, and the error message is non-empty if and only if the
\* most recently submitted query failed.
C10_LatestQueryWins ==
  (/\ csv = "ok"
   /\ lookups # <<>>
   /\ \A i \in 1..Len(lookups) : lookups[i].st # "pending")
    => LET latest == lookups[Len(lookups)] IN
         /\ latest.st = "ok" => home = Place(latest.q)
         /\ error # "" <=> latest.st = "failed"

====
